---- MODULE Spec2Model ----
(***************************************************************************)
(* A model of the edgeproxy request pipeline (src/src/worker.js, the       *)
(* "edgeproxy-ultimate" fetch handler, lines 390-627) together with the    *)
(* two external stores it shares between concurrent invocations: the       *)
(* rate-limit counter store (env.RATE_KV) and the response cache           *)
(* (caches.default).                                                       *)
(*                                                                         *)
(* One invocation of the handler is a process; it moves from one await on  *)
(* a shared store (or on the upstream fetch) to the next in one step.      *)
(*                                                                         *)
(* Strings are modelled by structure.  A URL-shaped string is the record   *)
(* [scheme, host, path, query, frag]: "https://EX.com" is                  *)
(* U("https", "EX.com", <<>>),                                             *)
(* "/new" is U("", "", <<"new">>), "" is U("", "", <<>>); path is the      *)
(* sequence of segments, each preceded by "/" ("/" itself is <<"">>);      *)
(* query and frag are what follows "?" and "#".  A reference with an       *)
(* opaque scheme, "mailto:a@b", is Opaque("mailto", "a@b"); a text that is *)
(* no URL at all is Word("hello"); the output of proxify is a record of    *)
(* the proxy origin and the encoded target.                                *)
(* Tests on text (toLowerCase, trim, includes, a regular expression) are   *)
(* tables over the finite universe of texts the model draws from.          *)
(***************************************************************************)
EXTENDS Integers, Sequences, FiniteSets, TLC

\* ------------------------------------------------------------------ bounds

\* Requests budget in one behaviour.
MaxRequests == 3
\* Requests started in one behaviour of concurrent invocations.
MaxConcRequests == 2
\* Minute buckets are 0..MaxMinute.
MaxMinute == 1
\* env.RATE_LIMIT_PER_MIN, the configured per-minute ceiling N.
RateCeiling == 1
\* Times an engine is run on a text: on the input, then on its own output.
MaxRuns == 2
\* Requests budget in one behaviour of a purge among concurrent GETs.
MaxRaceRequests == 3

\* ------------------------------------------------------- program constants

DEFAULT_MAX_REWRITE_BYTES == 1000000
DEFAULT_RATE_LIMIT_PER_MIN == 120
DEFAULT_CACHE_TTL == 3600

\* Concurrent invocations of the handler.
Procs == {"w1", "w2"}
\* Invocations of the handler when requests are handled one after another.
SeqProcs == {"w1"}

\* ----------------------------------------------------------------- strings

UQ(s, h, p, q, f) ==
  [scheme |-> s, host |-> h, path |-> p, query |-> q, frag |-> f]
U(s, h, p) == UQ(s, h, p, "", "")
EmptyStr == U("", "", <<>>)
Opaque(s, rest) == U(s, "", <<rest>>)
Word(w) == [word |-> w]

\* The shapes of a text.
IsWord(s) == "word" \in DOMAIN s
IsProxied(s) == "origin" \in DOMAIN s
IsUrlShaped(s) == "scheme" \in DOMAIN s

\* String.prototype.toLowerCase
toLowerCase(s) ==
  CASE s = "EX.com" -> "ex.com"
    [] s = "HTTPS" -> "https"
    [] s = "JavaScript" -> "javascript"
    [] s = "Text/CSS" -> "text/css"
    [] OTHER -> s

\* String.prototype.trim
trim(s) ==
  CASE s = " EX.com " -> "EX.com"
    [] s = " " -> ""
    [] OTHER -> s

\* The needles the handler searches for that occur in the text s.
Needles(s) ==
  CASE s = "text/html; charset=utf-8" -> {"text/html"}
    [] s = "text/html,*/*" -> {"text/html"}
    [] s = "text/css" -> {"text/css"}
    [] s = "application/javascript" -> {"javascript"}
    [] s = "application/json" -> {"application/json"}
    [] OTHER -> {}

\* String.prototype.includes
includes(s, needle) == needle \in Needles(s)

\* The extension the last path segment ends with (/\.css$/ and the like).
Extension(seg) ==
  CASE seg = "a.css" -> ".css"
    [] seg = "x.js" -> ".js"
    [] OTHER -> ""

\* encodeURIComponent / decodeURIComponent: an injective encoding and its
\* inverse.
encodeURIComponent(s) == [enc |-> s]
decodeURIComponent(e) == e.enc

\* The schemes whose URLs have a host ("special" schemes).
IsHttp(scheme) == toLowerCase(scheme) \in {"http", "https"}

\* new URL(raw): fails without a scheme, and for http(s) without a host;
\* lower-cases the scheme and the host, and gives an empty http(s) path the
\* path "/".  A proxy-addressed URL parses, its empty path becoming "/".
ParseUrl(raw) ==
  IF IsWord(raw) THEN [ok |-> FALSE, href |-> raw]
  ELSE IF IsProxied(raw)
    THEN [ok |-> TRUE, href |-> [raw EXCEPT !.path = IF @ = "" THEN "/" ELSE @]]
  ELSE IF raw.scheme = "" \/ (IsHttp(raw.scheme) /\ raw.host = "")
    THEN [ok |-> FALSE, href |-> raw]
  ELSE IF ~IsHttp(raw.scheme)
    THEN [ok |-> TRUE, href |-> [raw EXCEPT !.scheme = toLowerCase(@)]]
  ELSE [ok |-> TRUE,
        href |-> UQ(toLowerCase(raw.scheme), toLowerCase(raw.host),
                    IF raw.path = <<>> THEN <<"">> ELSE raw.path,
                    raw.query, raw.frag)]

\* new URL(raw, base) for a valid absolute http(s) base.
ParseUrlWithBase(raw, base) ==
  IF IsWord(raw)
    THEN [ok |-> TRUE,
          href |-> U(base.scheme, base.host,
                     SubSeq(base.path, 1, Len(base.path) - 1) \o <<raw.word>>)]
  ELSE IF IsProxied(raw) THEN ParseUrl(raw)
  ELSE IF raw.scheme # "" THEN ParseUrl(raw)
  ELSE IF raw.host = "" /\ raw.path # <<>>
    THEN [ok |-> TRUE,
          href |-> UQ(base.scheme, base.host, raw.path, raw.query, raw.frag)]
  ELSE IF raw.host = ""
    THEN [ok |-> TRUE,
          href |-> UQ(base.scheme, base.host, base.path,
                      IF raw.query = "" THEN base.query ELSE raw.query, raw.frag)]
  ELSE [ok |-> TRUE,
        href |-> UQ(base.scheme, base.host,
                    SubSeq(base.path, 1, Len(base.path) - 1)
                      \o <<raw.host>> \o raw.path,
                    raw.query, raw.frag)]

resolveUrl(raw, base) ==
  IF raw = EmptyStr THEN raw
  ELSE IF ParseUrlWithBase(raw, base).ok
    THEN ParseUrlWithBase(raw, base).href
    ELSE raw

proxify(proxyOrigin, absoluteUrl) ==
  [origin |-> proxyOrigin, path |-> "", url |-> encodeURIComponent(absoluteUrl)]

\* ----------------------------------------------------------------- headers

NoHeaders == [n \in {} |-> ""]
Has(h, n) == n \in DOMAIN h
SetH(h, n, v) == (n :> v) @@ h
DeleteH(h, n) == [x \in DOMAIN h \ {n} |-> h[x]]

\* A body is a text, possibly the output of a rewrite engine on it.
Text(s) == [engine |-> "none", text |-> s, base |-> EmptyStr]
Response(body, status, headers) ==
  [status |-> status, headers |-> headers, body |-> body]

\* The handler threw: no response is returned.
Uncaught(name) == Response(Text(name), 0, NoHeaders)

\* ------------------------------------------------------------- environment

API_KEY == "secret"
NoKey == ""
ProxyOrigin == "https://proxy.example"

Env(allowedHosts, rateKv) == [ALLOWED_HOSTS |-> allowedHosts, RATE_KV |-> rateKv]
\* No allow-list and no counter store; an allow-list, with and without the
\* counter store.
Envs == { Env(<<"">>, FALSE), Env(<<" EX.com ", "">>, TRUE),
          Env(<<" EX.com ", "">>, FALSE) }

\* An unset setting is <<>>, a set one <<n>>.
safeParseInt(v, fallback) == IF Len(v) = 0 THEN fallback ELSE v[1]

EnvRateLimit == <<RateCeiling>>
EnvMaxRewriteBytes == <<>>
EnvCacheTtl == <<>>

getAllowedSet(e) ==
  { toLowerCase(trim(e.ALLOWED_HOSTS[i])) : i \in DOMAIN e.ALLOWED_HOSTS } \ {""}

\* ---------------------------------------------------------------- requests

CssTarget == U("https", "ex.com", <<"a.css">>)
BareTarget == U("https", "EX.com", <<>>)
OtherTarget == U("https", "evil.org", <<"x.js">>)
NoSchemeTarget == U("", "ex.com", <<"a.css">>)
RawTargets == {CssTarget, BareTarget, OtherTarget, NoSchemeTarget}

Req(path, method, hdrKey, qKey, accept, url, target, body) ==
  [path |-> path, method |-> method, hdrKey |-> hdrKey, qKey |-> qKey,
   accept |-> accept, url |-> url, target |-> target, body |-> body]

Accepts == { "", "text/html,*/*" }

\* A form-encoded body is the sequence of its name=value fields.
Field(n, v) == [name |-> n, value |-> v]
PurgeBodies ==
  { <<>> } \cup { <<Field("url", encodeURIComponent(t))>> : t \in {CssTarget, BareTarget} }

ProxyRequests ==
  { Req("/", "GET", API_KEY, NoKey, a, u, EmptyStr, <<>>) :
      a \in Accepts, u \in RawTargets \cup {EmptyStr} }
  \cup { Req("/", "GET", NoKey, API_KEY, "", CssTarget, EmptyStr, <<>>),
         Req("/", "POST", API_KEY, NoKey, "", BareTarget, EmptyStr, <<>>),
         Req("/", "GET", API_KEY, NoKey, "", EmptyStr, CssTarget, <<>>) }
UnauthorizedRequests ==
  { Req("/", "GET", "wrong", API_KEY, "", CssTarget, EmptyStr, <<>>),
    Req("/", "GET", NoKey, NoKey, "", CssTarget, EmptyStr, <<>>),
    Req("/__purge", "POST", "wrong", NoKey, "", EmptyStr, EmptyStr,
        <<Field("url", encodeURIComponent(CssTarget))>>) }
HealthRequests ==
  { Req("/__health", "GET", NoKey, NoKey, "", EmptyStr, EmptyStr, <<>>) }
PurgeRequests ==
  { Req("/__purge", "POST", API_KEY, NoKey, "", EmptyStr, EmptyStr, b) :
      b \in PurgeBodies }
  \cup { Req("/__purge", "GET", API_KEY, NoKey, "", CssTarget, EmptyStr, <<>>) }

Requests ==
  ProxyRequests \cup UnauthorizedRequests \cup HealthRequests \cup PurgeRequests

\* ---------------------------------------------------------------- upstream

Upstream(status, ctype, extra, text) ==
  Response(Text(text), status,
           (IF ctype = "" THEN NoHeaders ELSE ("content-type" :> ctype)) @@ extra)

Location(l) == ("location" :> l)
ContentLength(n) == ("content-length" :> n)

\* Headers of an origin that sets a cookie, compresses and forbids framing.
OriginHeaders ==
  [n \in {"set-cookie", "content-encoding", "alt-svc", "x-frame-options"} |->
     CASE n = "set-cookie" -> "sid=2"
       [] n = "content-encoding" -> "gzip"
       [] n = "alt-svc" -> "h3"
       [] OTHER -> "DENY"]

NetworkError == Response(Text("NetworkError"), -1, NoHeaders)

\* What the origin at a target may answer; any fetch may fail instead.
UpstreamResponses(target) ==
  IF target.host = "evil.org" THEN
    { Upstream(200, "application/javascript", ContentLength(10), "b1"),
      Upstream(200, "application/javascript", ContentLength(2000000), "b2") }
  ELSE IF target.path = <<"a.css">> THEN
    { Upstream(200, "text/css", NoHeaders, "b1"),
      Upstream(404, "", NoHeaders, "b2"),
      Upstream(302, "", Location(U("", "", <<"new">>)), "") }
  ELSE
    { Upstream(200, "text/html; charset=utf-8", NoHeaders, "b1"),
      Upstream(200, "Text/CSS", NoHeaders, "b1"),
      Upstream(200, "application/json", NoHeaders, "b1"),
      Upstream(200, "", OriginHeaders, "b2"),
      Upstream(300, "", Location(U("", "", <<"new">>)), "b1"),
      Upstream(301, "", Location(U("http", "", <<>>)), ""),
      Upstream(302, "image/png", NoHeaders, "b1") }

FetchOutcomes(target) == UpstreamResponses(target) \cup {NetworkError}

\* ------------------------------------------- the handler's pure decisions

\* request.headers.get("x-api-key") || url.searchParams.get("api_key")
apiKeyOf(r) == IF r.hdrKey # NoKey THEN r.hdrKey ELSE r.qKey

\* Mutant: any key that is presented is accepted.
Authorized_AnyKey(apiKey) == apiKey # NoKey


Authorized(apiKey) == ~(apiKey = NoKey \/ apiKey # API_KEY)

\* Mutant: the comparison is off by one.
AtCeiling_OffByOne(cur, limit) == cur > limit

\* cur >= limit
AtCeiling(cur, limit) == cur >= limit

IsPurge(r) == r.path = "/__purge" /\ r.method = "POST"

\* body.match(/url=([^&]+)/): <<m[1]>>, or <<>> when nothing matches.
PurgeMatch(body) ==
  LET hits == { i \in DOMAIN body : body[i].name = "url" }
  IN IF hits = {} THEN <<>>
     ELSE <<body[CHOOSE i \in hits : \A j \in hits : i <= j].value>>

\* new Request(proxyOrigin + "/cache?url=" + encodeURIComponent(s), ...)
CacheRequest(proxyOrigin, s, apiKey) ==
  [url |-> [origin |-> proxyOrigin, path |-> "/cache",
            url |-> encodeURIComponent(s)],
   method |-> "GET", apiKey |-> apiKey]

PurgeKey(r) ==
  CacheRequest(ProxyOrigin, decodeURIComponent(PurgeMatch(r.body)[1]), apiKeyOf(r))

\* url.searchParams.get("url") || url.searchParams.get("target")
targetParam(r) == IF r.url # EmptyStr THEN r.url ELSE r.target

\* target.toString() of the parsed target parameter
TargetOf(r) == ParseUrl(targetParam(r)).href

\* Mutant: the allow-list is not consulted.
HostAllowed_Unchecked(allowed, target) == TRUE

\* !(allowed.size > 0 && !allowed.has(target.hostname.toLowerCase()))
HostAllowed(allowed, target) ==
  ~(Cardinality(allowed) > 0 /\ toLowerCase(target.host) \notin allowed)

CacheKey(r) == CacheRequest(ProxyOrigin, TargetOf(r), apiKeyOf(r))

\* isGet && !accept.includes("text/html")
CacheLookupAllowed(r) == r.method = "GET" /\ ~includes(r.accept, "text/html")

\* Mutant: nothing is ever stored.
CacheStoreAllowed_Never(r) == FALSE

\* if (isGet) { ... caches.default.put(...) }
CacheStoreAllowed(r) == r.method = "GET"

\* Lines 411-467 up to the first await on the cache: where the request goes
\* next, and the response when it ends here.
Route(r, e) ==
  IF IsPurge(r) THEN
    IF PurgeMatch(r.body) # <<>>
      THEN [pc |-> "purge_delete", reply |-> Uncaught("none")]
      ELSE [pc |-> "done", reply |-> Response(Text("Bad purge request"), 400, NoHeaders)]
  ELSE IF targetParam(r) = EmptyStr
    THEN [pc |-> "done", reply |-> Response(Text("Use: ?url="), 400, NoHeaders)]
  ELSE IF ~ParseUrl(targetParam(r)).ok
    THEN [pc |-> "done", reply |-> Response(Text("Invalid target URL"), 400, NoHeaders)]
  ELSE IF ~HostAllowed(getAllowedSet(e), TargetOf(r))
    THEN [pc |-> "done", reply |-> Response(Text("Forbidden target"), 403, NoHeaders)]
  ELSE IF CacheLookupAllowed(r)
    THEN [pc |-> "cache_match", reply |-> Uncaught("none")]
  ELSE [pc |-> "fetch", reply |-> Uncaught("none")]

\* Mutant: a hit is always served as 200.
HitResponse_Always200(cached) ==
  Response(cached.body, 200,
           SetH(SetH(cached.headers, "x-proxy-took-ms", "ms"),
                "x-proxy-cache-status", "HIT"))

\* The response served from a cache entry.
HitResponse(cached) ==
  Response(cached.body, cached.status,
           SetH(SetH(cached.headers, "x-proxy-took-ms", "ms"),
                "x-proxy-cache-status", "HIT"))

\* The headers every client request carries besides the key and Accept.
ClientHeaders ==
  [n \in {"host", "cookie", "authorization", "referer", "connection",
          "accept-encoding", "x-forwarded-for", "user-agent"} |->
     CASE n = "host" -> "proxy.example"
       [] n = "cookie" -> "sid=1"
       [] n = "authorization" -> "Bearer t"
       [] n = "referer" -> "https://ref.example/"
       [] n = "connection" -> "keep-alive"
       [] n = "accept-encoding" -> "gzip"
       [] n = "x-forwarded-for" -> "203.0.113.9"
       [] OTHER -> "ua"]

\* request.headers
InboundHeaders(r) ==
  (IF r.hdrKey # NoKey THEN ("x-api-key" :> r.hdrKey) ELSE NoHeaders)
  @@ (IF r.accept # "" THEN ("accept" :> r.accept) ELSE NoHeaders)
  @@ ClientHeaders

\* fwdHeaders: the inbound headers but five, and the provenance header.
fwdHeaders(r) ==
  LET h == InboundHeaders(r)
      kept == DOMAIN h \ {"cookie", "cookie2", "authorization", "referer", "host"}
  IN SetH([k \in kept |-> h[k]], "x-forwarded-by", "edgeproxy-ultimate")

\* new Request(target.toString(), {method, headers, body, redirect}); a null
\* body is <<>>.
OriginReq(r) ==
  [url |-> TargetOf(r), method |-> r.method, headers |-> fwdHeaders(r),
   body |-> IF r.method \in {"GET", "HEAD"} THEN <<>> ELSE <<r.body>>,
   redirect |-> "manual"]

IsRedirectStatus(status) == status >= 300 /\ status < 400

\* Response.redirect(url, status): a RangeError unless status is a redirect
\* status of the Fetch standard; the Location is the serialisation of the
\* parsed url, whose empty path is "/".
ResponseRedirect(url, status) ==
  IF status \in {301, 302, 303, 307, 308}
    THEN Response(Text(""), status,
                  Location([url EXCEPT !.path = IF @ = "" THEN "/" ELSE @]))
    ELSE Uncaught("RangeError")

\* if (loc) { ... return Response.redirect(proxiedUrl, originRes.status) }
HasLocation(res) ==
  Has(res.headers, "location") /\ res.headers["location"] # EmptyStr

RedirectResponse(r, res) ==
  ResponseRedirect(
    proxify(ProxyOrigin, resolveUrl(res.headers["location"], TargetOf(r))),
    res.status)

OutHeaders(r, res) ==
  LET stripped == DeleteH(DeleteH(DeleteH(res.headers,
                    "content-security-policy"), "x-frame-options"), "x-xss-protection")
  IN SetH(SetH(SetH(SetH(stripped,
       "access-control-allow-origin", "*"),
       "access-control-allow-headers", "Content-Type, x-api-key"),
       "x-proxy-origin-host", TargetOf(r).host),
       "x-proxy-rewritten", "none")

contentTypeOf(h) ==
  IF Has(h, "content-type") THEN toLowerCase(h["content-type"]) ELSE ""

pathExtension(target) == Extension(target.path[Len(target.path)])

isTooLarge(headers, maxBytes) ==
  Has(headers, "content-length") /\ headers["content-length"] > maxBytes

\* The branch of the dispatcher a response takes.
ContentKind(r, res) ==
  LET ct == contentTypeOf(OutHeaders(r, res))
      ext == pathExtension(TargetOf(r))
  IN IF includes(ct, "text/html") THEN "html"
     ELSE IF includes(ct, "text/css") \/ ext = ".css" THEN "css"
     ELSE IF includes(ct, "javascript") \/ ext = ".js" \/ ext = ".mjs" THEN
       IF isTooLarge(OutHeaders(r, res),
                     safeParseInt(EnvMaxRewriteBytes, DEFAULT_MAX_REWRITE_BYTES))
         THEN "js_too_large" ELSE "js"
     ELSE IF includes(ct, "application/json") \/ includes(ct, "application/ld+json")
             \/ ext = ".json" THEN "json"
     ELSE "raw"

TextLength(s) ==
  CASE s = "" -> 0
    [] s = "big" -> 2000000
    [] OTHER -> 10

\* The engines, as the application of an engine to a text and a base.
Rewritten(engine, body, base) ==
  IF body.text = "" THEN body
  ELSE [engine |-> engine, text |-> body.text, base |-> base]

\* The body of the response by branch of the dispatcher; in the pipeline the
\* bodies are named texts and an engine's output is the application of the
\* engine to the name (the engines themselves are modelled further down).
RewrittenBody(r, res) ==
  LET kind == ContentKind(r, res)
      base == TargetOf(r)
      maxBytes == safeParseInt(EnvMaxRewriteBytes, DEFAULT_MAX_REWRITE_BYTES)
  IN CASE kind = "html" -> Rewritten("html", res.body, base)
       [] kind = "css" -> Rewritten("css", res.body, base)
       [] kind = "js" -> IF TextLength(res.body.text) > maxBytes
                           THEN res.body ELSE Rewritten("js", res.body, base)
       [] kind = "json" -> Rewritten("json", res.body, base)
       [] OTHER -> res.body

CacheControlDefault == [maxAge |-> safeParseInt(EnvCacheTtl, DEFAULT_CACHE_TTL)]

\* The response object as it is when it is cloned into the cache.
BuiltResponse(r, res) ==
  LET kind == ContentKind(r, res)
      h0 == OutHeaders(r, res)
      h1 == IF kind = "css" THEN SetH(h0, "x-proxy-rewritten", "css")
            ELSE IF kind = "html" THEN SetH(h0, "x-proxy-rewritten", "html")
            ELSE h0
      h2 == IF kind \in {"css", "js", "json"} /\ r.method = "GET"
               /\ ~Has(h0, "cache-control")
              THEN SetH(h1, "cache-control", CacheControlDefault)
              ELSE h1
  IN Response(RewrittenBody(r, res), res.status, h2)

\* The response returned after a fetch that was dispatched to an engine or
\* passed through.
FinalResponse(r, res) ==
  LET kind == ContentKind(r, res)
      built == BuiltResponse(r, res)
      mark == CASE kind = "js" -> SetH(built.headers, "x-proxy-rewritten", "js")
                [] kind = "json" -> SetH(built.headers, "x-proxy-rewritten", "json")
                [] kind = "js_too_large" ->
                     SetH(built.headers, "x-proxy-rewritten", "none(too_large)")
                [] OTHER -> built.headers
  IN IF kind = "html" THEN built
     ELSE Response(built.body, built.status,
                   SetH(SetH(mark, "x-proxy-took-ms", "ms"),
                        "x-proxy-cache-status", "MISS"))

\* if (originRes.status >= 300 && originRes.status < 400) { ... if (loc) ... }:
\* whether a response stops at the redirect interceptor.
Intercepted(res) == IsRedirectStatus(res.status) /\ HasLocation(res)

\* Whether the handler puts the response into the cache before returning it.
Stores(r, res) ==
  ~Intercepted(res) /\ ContentKind(r, res) # "html" /\ CacheStoreAllowed(r)

\* ------------------------------------------------------ the rewrite engines

\* !/^(data:|blob:|about:|mailto:|javascript:)/i.test(urlStr), false for "".
isRewriteableResource(urlStr) ==
  IF urlStr = EmptyStr THEN FALSE
  ELSE IF ~IsUrlShaped(urlStr) THEN TRUE
  ELSE toLowerCase(urlStr.scheme)
         \notin {"data", "blob", "about", "mailto", "javascript"}

\* String.prototype.startsWith, for the prefixes the engines test.
startsWith(s, prefix) ==
  IF IsWord(s) THEN FALSE
  ELSE IF IsProxied(s) THEN prefix = s.origin
  ELSE \/ prefix = "https://proxy.example"
          /\ s.scheme = "https" /\ s.host = "proxy.example"
       \/ prefix = "javascript:" /\ s.scheme = "javascript"

\* /^(?:https?:\/\/|\/)/i.test(s)
StartsUrlLike(s) ==
  IF IsWord(s) THEN FALSE
  ELSE IF IsProxied(s) THEN TRUE
  ELSE \/ IsHttp(s.scheme)
       \/ s.scheme = "" /\ s.host = "" /\ s.path # <<>>

\* ((?:https?:\/\/|\/)[^'"`]+): URL-like with at least one character more.
LiteralUrl(s) ==
  /\ StartsUrlLike(s)
  /\ IsUrlShaped(s) =>
       IF s.scheme = "" THEN s.path # <<"">> \/ s.query # "" \/ s.frag # ""
       ELSE s.host # "" \/ s.path # <<>>

\* /[<>\s]/.test(u)
HasAngleOrSpace(u) == IsUrlShaped(u) /\ u.path = <<"a b">>

\* CSS text: a sequence of items, url(q u q), @import q u q,
\* @import url(q u q), and other text of n characters.
CssUrl(q, u) == [t |-> "url", q |-> q, u |-> u]
CssImport(q, u) == [t |-> "import", q |-> q, u |-> u]
CssImportUrl(q, u) == [t |-> "importurl", q |-> q, u |-> u]
Other(n) == [t |-> "other", n |-> n]

\* The first pass of rewriteCSS on one item: /url\(\s*(['"]?)(.*?)\1\s*\)/gi.
cssUrlPass(item, base, proxyOrigin) ==
  IF item.t \in {"url", "importurl"} /\ isRewriteableResource(item.u)
    THEN [item EXCEPT !.u = proxify(proxyOrigin, resolveUrl(item.u, base))]
    ELSE item

\* The second pass on one item:
\* /@import\s+(?:url\()?['"]?([^'"\)\s]+)['"]?\)?/gi.
cssImportPass(item, base, proxyOrigin) ==
  IF item.t \in {"import", "importurl"} /\ item.u # EmptyStr
     /\ isRewriteableResource(item.u)
    THEN CssImportUrl("\"", proxify(proxyOrigin, resolveUrl(item.u, base)))
    ELSE item

rewriteCSS(cssText, base, proxyOrigin) ==
  IF cssText = <<>> THEN cssText
  ELSE [i \in DOMAIN cssText |->
          cssImportPass(cssUrlPass(cssText[i], base, proxyOrigin), base, proxyOrigin)]

\* JS text: a sequence of items.  Lit(ctx, q, u) is the string literal q u q
\* in the context ctx: "fetch" fetch(q u q, "import" import(q u q),
\* "open" .open("GET", q u q, "worker" new Worker(q u q,
\* "location" location.href = q u q, "register" serviceWorker.register(q u q),
\* "concat" fetch(base + q u q), "plain" x = q u q.
Lit(ctx, q, u) == [t |-> "lit", ctx |-> ctx, q |-> q, u |-> u]
\* importScripts(args): an argument is a literal q u q, or with q = "" an
\* expression.
Arg(q, u) == [q |-> q, u |-> u]
ImportScripts(args) == [t |-> "importScripts", args |-> args]
\* //# sourceMappingURL=u
SourceMap(u) == [t |-> "sourcemap", u |-> u]

ItemLength(item) == IF item.t = "other" THEN item.n ELSE 20

RECURSIVE Length(_)
\* text.length
Length(text) ==
  IF text = <<>> THEN 0 ELSE ItemLength(Head(text)) + Length(Tail(text))

proxifyIf(u, base, proxyOrigin) ==
  IF ~isRewriteableResource(u) THEN u
  ELSE IF startsWith(u, proxyOrigin) THEN u
  ELSE proxify(proxyOrigin, resolveUrl(u, base))

\* Patterns 1, 2, 4, 5, 6 and 7: a literal URL in the pattern's context.
jsContextPass(ctx, item, base, proxyOrigin) ==
  IF item.t = "lit" /\ item.ctx = ctx /\ LiteralUrl(item.u)
    THEN [item EXCEPT !.u = proxifyIf(item.u, base, proxyOrigin)]
    ELSE item

\* Pattern 3: importScripts('a.js', 'b.js').
jsImportScriptsPass(item, base, proxyOrigin) ==
  IF item.t = "importScripts"
    THEN [item EXCEPT !.args =
            [i \in DOMAIN item.args |->
               IF item.args[i].q # ""
                 THEN Arg(item.args[i].q,
                          proxifyIf(item.args[i].u, base, proxyOrigin))
                 ELSE item.args[i]]]
    ELSE item

\* Pattern 8: the sourceMappingURL comment.
jsSourceMapPass(item, base, proxyOrigin) ==
  IF item.t = "sourcemap" /\ isRewriteableResource(item.u)
    THEN [item EXCEPT !.u = proxifyIf(item.u, base, proxyOrigin)]
    ELSE item

\* Pattern 9 on one literal.
jsGenericLiteral(u, base, proxyOrigin) ==
  IF ~LiteralUrl(u) THEN u
  ELSE IF startsWith(u, proxyOrigin) THEN u
  ELSE IF HasAngleOrSpace(u) THEN u
  ELSE proxifyIf(u, base, proxyOrigin)

\* Pattern 9: every string literal that looks like a URL, wherever it is.
jsGenericPass(item, base, proxyOrigin) ==
  IF item.t = "lit"
    THEN [item EXCEPT !.u = jsGenericLiteral(item.u, base, proxyOrigin)]
  ELSE IF item.t = "importScripts"
    THEN [item EXCEPT !.args =
            [i \in DOMAIN item.args |->
               IF item.args[i].q # ""
                 THEN Arg(item.args[i].q,
                          jsGenericLiteral(item.args[i].u, base, proxyOrigin))
                 ELSE item.args[i]]]
  ELSE item

\* The nine patterns in their order, on one item.
jsPatterns(item, base, proxyOrigin) ==
  jsGenericPass(
    jsSourceMapPass(
      jsContextPass("register",
        jsContextPass("location",
          jsContextPass("worker",
            jsContextPass("open",
              jsImportScriptsPass(
                jsContextPass("import",
                  jsContextPass("fetch", item, base, proxyOrigin),
                  base, proxyOrigin),
                base, proxyOrigin),
              base, proxyOrigin),
            base, proxyOrigin),
          base, proxyOrigin),
        base, proxyOrigin),
      base, proxyOrigin),
    base, proxyOrigin)

rewriteJS(jsText, base, proxyOrigin, maxBytes) ==
  IF jsText = <<>> THEN jsText
  ELSE IF Length(jsText) > maxBytes THEN jsText
  ELSE [i \in DOMAIN jsText |-> jsPatterns(jsText[i], base, proxyOrigin)]

\* JSON values: objects (own keys -> values), arrays, strings, numbers and
\* the literals true, false, null.
JObj(m) == [t |-> "obj", m |-> m]
JArr(a) == [t |-> "arr", a |-> a]
JStr(s) == [t |-> "str", s |-> s]
JNum(n) == [t |-> "num", n |-> n]
JLit(v) == [t |-> "lit", v |-> v]

\* A JSON text is the value as written (a number as its literal), or a text
\* that is not JSON, or the empty text.
JsonText(v) == [json |-> TRUE, v |-> v]
NotJson(w) == [json |-> FALSE, w |-> w]
EmptyText == NotJson("")

\* The double a number literal denotes.
NumberOf(literal) == IF literal = "1e400" THEN "Infinity" ELSE literal

RECURSIVE JSONparse(_)
\* JSON.parse on the value as written.
JSONparse(v) ==
  CASE v.t = "obj" -> JObj([k \in DOMAIN v.m |-> JSONparse(v.m[k])])
    [] v.t = "arr" -> JArr([i \in DOMAIN v.a |-> JSONparse(v.a[i])])
    [] v.t = "num" -> JNum(NumberOf(v.n))
    [] OTHER -> v

RECURSIVE JSONstringify(_)
\* JSON.stringify: a number that is not finite is written null.
JSONstringify(v) ==
  CASE v.t = "obj" -> JObj([k \in DOMAIN v.m |-> JSONstringify(v.m[k])])
    [] v.t = "arr" -> JArr([i \in DOMAIN v.a |-> JSONstringify(v.a[i])])
    [] v.t = "num" -> IF v.n = "Infinity" THEN JLit("null") ELSE v
    [] OTHER -> v

RECURSIVE replacer(_, _, _)
\* out = {}; out[k] = replacer(obj[k]): the assignment to "__proto__" goes to
\* the prototype setter and makes no own property.
replacer(obj, base, proxyOrigin) ==
  CASE obj.t = "arr" ->
         JArr([i \in DOMAIN obj.a |-> replacer(obj.a[i], base, proxyOrigin)])
    [] obj.t = "obj" ->
         JObj([k \in DOMAIN obj.m \ {"__proto__"} |->
                 replacer(obj.m[k], base, proxyOrigin)])
    [] obj.t = "str" ->
         IF StartsUrlLike(obj.s) /\ isRewriteableResource(obj.s)
           THEN JStr(proxify(proxyOrigin, resolveUrl(obj.s, base)))
           ELSE obj
    [] OTHER -> obj

rewriteJSON(text, base, proxyOrigin) ==
  IF text = EmptyText THEN text
  ELSE IF ~text.json THEN text
  ELSE JsonText(JSONstringify(replacer(JSONparse(text.v), base, proxyOrigin)))

\* An HTML element: its tag (what selectors match), what el.tagName reads,
\* and its attributes.  The value of href, src, action, poster, data-src and
\* data-srcset is a text, of srcset a sequence of entries, of style a CSS
\* text; the elements have no text content.
El(tag, tagName, attrs) == [tag |-> tag, tagName |-> tagName, attrs |-> attrs]
SrcsetEntry(urlPart, descriptor) == [urlPart |-> urlPart, descriptor |-> descriptor]

hasAttribute(el, attr) == attr \in DOMAIN el.attrs
\* el.getAttribute(attr) is neither null nor empty.
Truthy(el, attr) ==
  /\ hasAttribute(el, attr)
  /\ IF attr \in {"srcset", "style"}
       THEN el.attrs[attr] # <<>> ELSE el.attrs[attr] # EmptyStr
setAttribute(el, attr, v) == [el EXCEPT !.attrs = (attr :> v) @@ @]
removeAttribute(el, attr) ==
  [el EXCEPT !.attrs = [a \in DOMAIN @ \ {attr} |-> @[a]]]

attrProxy(el, attr, targetBase, proxyOrigin) ==
  IF ~Truthy(el, attr) THEN el
  ELSE IF ~isRewriteableResource(el.attrs[attr]) THEN el
  ELSE setAttribute(el, attr,
         proxify(proxyOrigin, resolveUrl(el.attrs[attr], targetBase)))

anchor(el, targetBase, proxyOrigin) ==
  IF ~Truthy(el, "href") \/ startsWith(el.attrs["href"], "javascript:") THEN el
  ELSE setAttribute(el, "href",
         proxify(proxyOrigin, resolveUrl(el.attrs["href"], targetBase)))

form(el, targetBase, proxyOrigin) ==
  LET action == IF hasAttribute(el, "action") THEN el.attrs["action"] ELSE EmptyStr
      abs == resolveUrl(IF action # EmptyStr THEN action ELSE targetBase, targetBase)
  IN setAttribute(el, "action", proxify(proxyOrigin, abs))

srcsetEntry(entry, targetBase, proxyOrigin) ==
  IF entry.urlPart = EmptyStr THEN entry
  ELSE IF ~isRewriteableResource(entry.urlPart) THEN entry
  ELSE SrcsetEntry(proxify(proxyOrigin, resolveUrl(entry.urlPart, targetBase)),
                   entry.descriptor)

srcAttr(el, attr, targetBase, proxyOrigin) ==
  IF ~Truthy(el, attr) THEN el
  ELSE IF attr = "srcset"
    THEN setAttribute(el, attr,
           [i \in DOMAIN el.attrs[attr] |->
              srcsetEntry(el.attrs[attr][i], targetBase, proxyOrigin)])
  ELSE IF ~isRewriteableResource(el.attrs[attr]) THEN el
  ELSE setAttribute(el, attr,
         proxify(proxyOrigin, resolveUrl(el.attrs[attr], targetBase)))

srcAttrHandler(el, targetBase, proxyOrigin) ==
  srcAttr(srcAttr(srcAttr(srcAttr(srcAttr(
    el, "src", targetBase, proxyOrigin), "poster", targetBase, proxyOrigin),
    "data-src", targetBase, proxyOrigin), "data-srcset", targetBase, proxyOrigin),
    "srcset", targetBase, proxyOrigin)

resourceAttrHandler(el, targetBase, proxyOrigin) ==
  IF el.tagName = "LINK" THEN
    IF ~Truthy(el, "href") THEN el
    ELSE LET set == setAttribute(el, "href",
                      proxify(proxyOrigin, resolveUrl(el.attrs["href"], targetBase)))
         IN IF Truthy(set, "integrity")
              THEN removeAttribute(
                     setAttribute(set, "data-proxy-integrity", set.attrs["integrity"]),
                     "integrity")
              ELSE set
  ELSE IF el.tagName = "SCRIPT" THEN
    IF ~Truthy(el, "src") THEN el
    ELSE setAttribute(el, "src",
           proxify(proxyOrigin, resolveUrl(el.attrs["src"], targetBase)))
  ELSE el

inlineStyleHandler(el, targetBase, proxyOrigin) ==
  IF ~Truthy(el, "style") THEN el
  ELSE setAttribute(el, "style", rewriteCSS(el.attrs["style"], targetBase, proxyOrigin))

baseHandler(el, targetBase, proxyOrigin) ==
  IF Truthy(el, "href")
    THEN setAttribute(el, "data-proxy-base", resolveUrl(el.attrs["href"], targetBase))
    ELSE el

\* The handlers the fetch handler registers (lines 523-540), each on the
\* elements its selectors match.  The handlers of style, script:not([src])
\* and script[type='importmap'] act on the text content only, and the
\* elements have none.
onAnchor(el, targetBase, proxyOrigin) ==
  IF el.tag \in {"a", "area"} /\ hasAttribute(el, "href")
    THEN anchor(el, targetBase, proxyOrigin) ELSE el

onForm(el, targetBase, proxyOrigin) ==
  IF el.tag = "form" /\ hasAttribute(el, "action")
    THEN form(el, targetBase, proxyOrigin) ELSE el

onMedia(el, targetBase, proxyOrigin) ==
  IF el.tag \in {"img", "video", "audio", "source", "track", "iframe", "embed",
                 "object"}
    THEN srcAttrHandler(el, targetBase, proxyOrigin) ELSE el

onResource(el, targetBase, proxyOrigin) ==
  IF \/ el.tag = "script" /\ hasAttribute(el, "src")
     \/ el.tag = "link" /\ hasAttribute(el, "href")
    THEN resourceAttrHandler(el, targetBase, proxyOrigin) ELSE el

onStyle(el, targetBase, proxyOrigin) ==
  IF hasAttribute(el, "style")
    THEN inlineStyleHandler(el, targetBase, proxyOrigin) ELSE el

onBase(el, targetBase, proxyOrigin) ==
  IF el.tag = "base" THEN baseHandler(el, targetBase, proxyOrigin) ELSE el

\* The handlers applied to one element in the order of registration.
rewriteElement(el, targetBase, proxyOrigin) ==
  onBase(onStyle(onResource(onMedia(onForm(onAnchor(
    el, targetBase, proxyOrigin), targetBase, proxyOrigin),
    targetBase, proxyOrigin), targetBase, proxyOrigin),
    targetBase, proxyOrigin), targetBase, proxyOrigin)

\* The variant in src/unnamed/part_001: the target is the path remainder.
\* `${origin}/${absoluteUrl}`
proxify_part001(origin, absoluteUrl) == [origin |-> origin, rest |-> absoluteUrl]

\* url.pathname.slice(1) + url.search of a request for a proxified URL: what
\* follows "#" is the fragment of the request URL, not part of either.
pathAndSearch_part001(requestUrl) ==
  IF IsUrlShaped(requestUrl.rest)
    THEN [requestUrl.rest EXCEPT !.frag = ""]
    ELSE requestUrl.rest

\* The target of src/unnamed/part_001: "https://" is put before a text that
\* does not begin with http:// or https://.
target_part001(requestUrl) ==
  LET target == pathAndSearch_part001(requestUrl)
  IN IF IsUrlShaped(target) /\ ~IsHttp(target.scheme)
       THEN [https |-> target]
       ELSE target

\* The body of a standalone CSS or JS response (lines 549-557, 570-589).
StandaloneBody(kind, outHeaders, text, base, maxBytes) ==
  IF kind = "css" THEN rewriteCSS(text, base, ProxyOrigin)
  ELSE IF isTooLarge(outHeaders, maxBytes) THEN text
  ELSE rewriteJS(text, base, ProxyOrigin, maxBytes)

\* The request a client makes when it follows a proxified URL, and the
\* target the handler takes from it (lines 428-435).
RequestFor(proxied) ==
  Req("/", "GET", API_KEY, NoKey, "", decodeURIComponent(proxied.url), EmptyStr, <<>>)

\* --------------------------------------------------- inputs of the engines

PageBase == U("https", "ex.com", <<"p", "">>)
EngineBases == {PageBase, UQ("https", "ex.com", <<"a.css">>, "v=2", "")}

RootRef == U("", "", <<"api", "x">>)
AbsRef == UQ("https", "cdn.org", <<"a.png">>, "v=1", "top")
MailtoRef == Opaque("mailto", "a@b")
TelRef == Opaque("tel", "+1")
DataRef == Opaque("data", "x")
JavaScriptRef == Opaque("JavaScript", "void(0)")
ProxiedRef == proxify(ProxyOrigin, U("https", "ex.com", <<"a.png">>))
ProxyAssetRef == U("https", "proxy.example", <<"app.js">>)
BadRef == U("http", "", <<>>)
ExcludedRefs == {MailtoRef, TelRef, DataRef, JavaScriptRef}
Refs ==
  {RootRef, AbsRef, ProxiedRef, ProxyAssetRef, BadRef, Word("hello"), EmptyStr}
  \cup ExcludedRefs

\* A text longer than the default ceiling.
Oversized == DEFAULT_MAX_REWRITE_BYTES + 1
Paddings == { <<>>, <<Other(Oversized)>> }

CssItems ==
  { CssUrl(q, r) : q \in {"", "'"}, r \in Refs }
  \cup { CssImport("\"", r) : r \in Refs \ {EmptyStr} }
  \cup { CssImportUrl("\"", r) : r \in Refs \ {EmptyStr} }
CssTexts == { <<i>> \o pad : i \in CssItems, pad \in Paddings } \cup { <<>> }

Contexts ==
  {"fetch", "import", "open", "worker", "location", "register", "concat", "plain"}
JsItems ==
  { Lit(c, "\"", r) : c \in Contexts, r \in Refs }
  \cup { ImportScripts(<<Arg("'", r), Arg("", Word("self.lib"))>>) : r \in Refs }
  \cup { SourceMap(r) : r \in Refs }
  \cup { Lit("plain", "'", U("", "", <<"a b">>)), Lit("fetch", "'", U("", "", <<"">>)) }
JsTexts == { <<i>> \o pad : i \in JsItems, pad \in Paddings } \cup { <<>> }

JsonLeaves ==
  { JStr(r) : r \in Refs } \cup { JNum("3"), JNum("1e400"), JLit("true"), JLit("null") }
JsonValues ==
  JsonLeaves
  \cup { JObj([k \in {"next", "count"} |-> IF k = "next" THEN l ELSE JNum("3")]) :
           l \in JsonLeaves }
  \cup { JArr(<<JObj([k \in {"__proto__"} |-> l]), JStr(Word("hello"))>>) :
           l \in {JStr(RootRef), JNum("3")} }
  \cup { JObj([k \in {"items"} |-> JArr(<<JStr(RootRef), JLit("false")>>)]) }
JsonTexts == { JsonText(v) : v \in JsonValues } \cup { NotJson("{oops"), EmptyText }

\* el.tagName as the platform reports it: the tag, or the tag in capitals.
TagNames(tag) ==
  {tag} \cup (CASE tag = "link" -> {"LINK"} [] tag = "script" -> {"SCRIPT"}
                [] OTHER -> {})
Integrity == Word("sha256-abc")
Elements ==
  { El("a", "a", [n \in {"href"} |-> r]) : r \in Refs }
  \cup { El("form", "form", [n \in {"action"} |-> r]) : r \in Refs }
  \cup { El("img", "img", [n \in {"src", "srcset"} |->
             IF n = "src" THEN r ELSE <<SrcsetEntry(r, "2x")>>]) : r \in Refs }
  \cup { El("video", "video", [n \in {"poster"} |-> r]) : r \in Refs }
  \cup { El(t, tn, [n \in {IF t = "link" THEN "href" ELSE "src", "integrity"} |->
             IF n = "integrity" THEN Integrity ELSE r]) :
           t \in {"link", "script"}, tn \in {"link", "script", "LINK", "SCRIPT"},
           r \in Refs }
  \cup { El("div", "div", [n \in {"style"} |-> <<CssUrl("'", r)>>]) : r \in Refs }
  \cup { El("base", "base", [n \in {"href"} |-> RootRef]) }

CssInput(text, base) == [kind |-> "css", doc |-> text, base |-> base]
JsInput(text, base) == [kind |-> "js", doc |-> text, base |-> base]
JsonInput(text, base) == [kind |-> "json", doc |-> text, base |-> base]
HtmlInput(el, base) == [kind |-> "html", doc |-> el, base |-> base]
\* A standalone CSS or JS response: its content kind and headers.
BodyInput(ctype, headers, text, base) ==
  [kind |-> "body", ctype |-> ctype, headers |-> headers, doc |-> text, base |-> base]
\* A reference that is proxified and then followed.
LinkInput(ref, base) == [kind |-> "link", doc |-> ref, base |-> base]

EngineInputs ==
  { CssInput(t, b) : t \in CssTexts, b \in EngineBases }
  \cup { JsInput(t, b) : t \in JsTexts, b \in EngineBases }
  \cup { JsonInput(t, b) : t \in JsonTexts, b \in EngineBases }
  \cup { HtmlInput(e, b) : e \in { x \in Elements : x.tagName \in TagNames(x.tag) },
                           b \in EngineBases }
  \cup { BodyInput("css", NoHeaders, t, PageBase) : t \in CssTexts }
  \cup { BodyInput("css", ContentLength(Length(t)), t, PageBase) : t \in CssTexts }
  \cup { BodyInput("js", NoHeaders, t, PageBase) : t \in JsTexts }
  \cup { BodyInput("js", ContentLength(Length(t)), t, PageBase) : t \in JsTexts }
  \cup { LinkInput(r, b) : r \in Refs, b \in EngineBases }

\* ------------------------------------------------------------------- state

VARIABLES
  env,        \* the configuration the handler is invoked with
  minute,     \* Math.floor(Date.now() / 60000)
  kv,         \* env.RATE_KV: key -> stored count
  cache,      \* caches.default: cache key -> stored response
  pc,         \* per invocation: the await it is at
  req,        \* per invocation: the request
  kvKey,      \* per invocation: checkRateLimit's kvKey
  cur,        \* per invocation: checkRateLimit's cur
  seen,       \* per invocation: <<the entry the cache lookup returned>>, or <<>>
  originRes,  \* per invocation: the upstream response
  reply,      \* per invocation: the response returned
  eff,        \* per invocation: the store, cache and upstream operations issued
  nfetch,     \* per invocation: upstream fetches issued
  rank,       \* per invocation: its position among the bucket's rate checks
  budget,     \* requests that may still start
  arrivals,   \* per minute bucket: rate checks that read the counter
  passed,     \* per minute bucket: requests that passed checkRateLimit
  prev,       \* the request handled last, and its response
  lapsed,     \* the cache dropped an entry since the last request started
  originReq,  \* per invocation: the request handed to fetch
  hist,       \* purges begun, and when each response was fetched and stored
  input,      \* the text (or element) an engine is given, and its base
  output,     \* what the engine returned
  runs        \* engine runs so far

engineVars == <<input, output, runs>>
pipelineVars == <<env, minute, kv, cache, pc, req, kvKey, cur, seen, originRes,
                  reply, eff, nfetch, rank, budget, arrivals, passed, prev,
                  lapsed, originReq, hist>>
vars == <<pipelineVars, engineVars>>

NoReq == Req("", "", NoKey, NoKey, "", EmptyStr, EmptyStr, <<>>)
NoReply == Uncaught("none")
NoKvKey == [apiKey |-> NoKey, minute |-> 0]
NoPrev == [req |-> NoReq, reply |-> NoReply]
NoOriginReq == <<>>
\* No purge has begun, nothing was fetched or stored.
NoHist ==
  [purges |-> 0,
   mine |-> [p \in Procs |-> 0],
   fetchedAt |-> [p \in Procs |-> 0],
   storedAt |-> <<>>,
   returned |-> <<>>,
   staleHit |-> {}]
NoInput == [kind |-> "none"]
NoOutput == [kind |-> "none"]

Idle(requests) ==
  /\ env \in Envs
  /\ minute = 0
  /\ kv = <<>>
  /\ cache = <<>>
  /\ pc = [p \in Procs |-> "idle"]
  /\ req = [p \in Procs |-> NoReq]
  /\ kvKey = [p \in Procs |-> NoKvKey]
  /\ cur = [p \in Procs |-> 0]
  /\ seen = [p \in Procs |-> <<>>]
  /\ originRes = [p \in Procs |-> NoReply]
  /\ reply = [p \in Procs |-> NoReply]
  /\ eff = [p \in Procs |-> {}]
  /\ nfetch = [p \in Procs |-> 0]
  /\ rank = [p \in Procs |-> 0]
  /\ budget = requests
  /\ arrivals = [m \in 0..MaxMinute |-> 0]
  /\ passed = [m \in 0..MaxMinute |-> 0]
  /\ prev = NoPrev
  /\ lapsed = FALSE
  /\ originReq = [p \in Procs |-> NoOriginReq]
  /\ hist = NoHist

\* The function f without the argument k.
Without(f, k) == [j \in DOMAIN f \ {k} |-> f[j]]

\* The purge of p begins: it is the purge number hist.purges + 1.
PurgeBegan(p) ==
  [hist EXCEPT !.purges = @ + 1, !.mine = [@ EXCEPT ![p] = hist.purges + 1]]

\* The purge of p deleted the entry under k and returns "Purged".
PurgeReturned(p, k) ==
  [hist EXCEPT
     !.returned =
       (k :> IF k \in DOMAIN @ /\ @[k] > hist.mine[p] THEN @[k] ELSE hist.mine[p])
         @@ @,
     !.storedAt = Without(@, k)]

\* p stores under k the response it fetched when hist.fetchedAt[p] purges
\* had begun.
StoredBy(p, k) == [hist EXCEPT !.storedAt = (k :> hist.fetchedAt[p]) @@ @]

\* p is served the entry under k: the entry is stale when a purge of k that
\* has returned began after the entry's response was fetched.
Served(p, k) ==
  IF k \in DOMAIN hist.returned /\ k \in DOMAIN hist.storedAt
     /\ hist.storedAt[k] < hist.returned[k]
    THEN [hist EXCEPT !.staleHit = @ \cup {p}]
    ELSE hist

\* p's request goes on to r.pc, or ends with r.reply.
Goto(p, r) ==
  /\ pc' = [pc EXCEPT ![p] = r.pc]
  /\ reply' = [reply EXCEPT ![p] = r.reply]

Return(p, response) == Goto(p, [pc |-> "done", reply |-> response])

\* Lines 391-409 and 59-63: the request arrives; health, authentication and
\* the start of checkRateLimit, up to the read of the counter.
StartFrom(p, requests) ==
  /\ pc[p] = "idle"
  /\ budget > 0
  /\ \E r \in requests :
       /\ req' = [req EXCEPT ![p] = r]
       /\ IF r.path = "/__health"
            THEN Return(p, Response(Text("ok"), 200, NoHeaders)) /\ UNCHANGED kvKey
          ELSE IF ~Authorized(apiKeyOf(r))
            THEN Return(p, Response(Text("Unauthorized"), 401, NoHeaders))
                 /\ UNCHANGED kvKey
          ELSE IF ~env.RATE_KV
            THEN Goto(p, Route(r, env)) /\ UNCHANGED kvKey
          ELSE /\ Goto(p, [pc |-> "rl_get", reply |-> NoReply])
               /\ kvKey' = [kvKey EXCEPT ![p] =
                              [apiKey |-> apiKeyOf(r), minute |-> minute]]
  /\ budget' = budget - 1
  /\ lapsed' = FALSE
  /\ hist' = IF IsPurge(req'[p]) /\ Authorized(apiKeyOf(req'[p]))
               THEN PurgeBegan(p) ELSE hist
  /\ UNCHANGED <<engineVars, originReq, env, minute, kv, cache, cur, seen, originRes, eff, nfetch, rank,
                 arrivals, passed, prev>>

Start(p) == StartFrom(p, Requests)

\* Lines 63-68: await env.RATE_KV.get(kvKey), and the comparison.
RateGet(p) ==
  /\ pc[p] = "rl_get"
  /\ LET c == IF kvKey[p] \in DOMAIN kv THEN kv[kvKey[p]] ELSE 0
         m == kvKey[p].minute
     IN /\ cur' = [cur EXCEPT ![p] = c]
        /\ arrivals' = [arrivals EXCEPT ![m] = @ + 1]
        /\ rank' = [rank EXCEPT ![p] = arrivals[m] + 1]
        /\ IF AtCeiling(c, safeParseInt(EnvRateLimit, DEFAULT_RATE_LIMIT_PER_MIN))
             THEN Return(p, Response(Text("Rate limit exceeded"), 429, NoHeaders))
             ELSE Goto(p, [pc |-> "rl_put", reply |-> NoReply])
  /\ eff' = [eff EXCEPT ![p] = @ \cup {"kv_get"}]
  /\ UNCHANGED <<hist, engineVars, originReq, env, minute, kv, cache, req, kvKey, seen, originRes, nfetch,
                 budget, passed, prev, lapsed>>

\* Lines 69-70 and 406-467: await env.RATE_KV.put(kvKey, cur + 1); then the
\* handler runs on to its next await.
RatePut(p) ==
  /\ pc[p] = "rl_put"
  /\ kv' = (kvKey[p] :> (cur[p] + 1)) @@ kv
  /\ passed' = [passed EXCEPT ![kvKey[p].minute] = @ + 1]
  /\ Goto(p, Route(req[p], env))
  /\ eff' = [eff EXCEPT ![p] = @ \cup {"kv_put"}]
  /\ UNCHANGED <<hist, engineVars, originReq, env, minute, cache, req, kvKey, cur, seen, originRes, nfetch,
                 rank, budget, arrivals, prev, lapsed>>

\* Lines 421-422: await caches.default.delete(cacheKey).
PurgeDelete(p) ==
  /\ pc[p] = "purge_delete"
  /\ cache' = [k \in DOMAIN cache \ {PurgeKey(req[p])} |-> cache[k]]
  /\ Return(p, Response(Text("Purged"), 200, NoHeaders))
  /\ eff' = [eff EXCEPT ![p] = @ \cup {"cache_delete"}]
  /\ hist' = PurgeReturned(p, PurgeKey(req[p]))
  /\ UNCHANGED <<engineVars, originReq, env, minute, kv, req, kvKey, cur, seen, originRes, nfetch, rank,
                 budget, arrivals, passed, prev, lapsed>>

\* Lines 459-466: await caches.default.match(cacheKey).
CacheMatch(p) ==
  /\ pc[p] = "cache_match"
  /\ LET k == CacheKey(req[p])
     IN IF k \in DOMAIN cache
          THEN /\ seen' = [seen EXCEPT ![p] = <<cache[k]>>]
               /\ Return(p, HitResponse(cache[k]))
          ELSE /\ seen' = [seen EXCEPT ![p] = <<>>]
               /\ Goto(p, [pc |-> "fetch", reply |-> NoReply])
  /\ eff' = [eff EXCEPT ![p] = @ \cup {"cache_match"}]
  /\ hist' = IF CacheKey(req[p]) \in DOMAIN cache
               THEN Served(p, CacheKey(req[p])) ELSE hist
  /\ UNCHANGED <<engineVars, originReq, env, minute, kv, cache, req, kvKey, cur, originRes, nfetch, rank,
                 budget, arrivals, passed, prev, lapsed>>

\* Mutant: a failed fetch is tried again.
FetchFailed_Retry(p) == Goto(p, [pc |-> "fetch", reply |-> NoReply])

\* catch (e) { return new Response("Upstream fetch failed: " + e.message, 502) }
FetchFailed(p) ==
  Return(p, Response(Text("Upstream fetch failed"), 502, NoHeaders))

\* Lines 494-626 up to the await on caches.default.put: the interceptor and
\* the dispatcher.
Fetched(p, res) ==
  IF Intercepted(res) THEN Return(p, RedirectResponse(req[p], res))
  ELSE IF Stores(req[p], res)
    THEN Goto(p, [pc |-> "cache_put", reply |-> NoReply])
    ELSE Return(p, FinalResponse(req[p], res))

\* Lines 469-492: originReq is built; await fetch(originReq), once.
Fetch(p) ==
  /\ pc[p] = "fetch"
  /\ \E res \in FetchOutcomes(TargetOf(req[p])) :
       /\ originRes' = [originRes EXCEPT ![p] = res]
       /\ IF res = NetworkError THEN FetchFailed(p) ELSE Fetched(p, res)
  /\ nfetch' = [nfetch EXCEPT ![p] = @ + 1]
  /\ eff' = [eff EXCEPT ![p] = @ \cup {"fetch"}]
  /\ originReq' = [originReq EXCEPT ![p] = OriginReq(req[p])]
  /\ hist' = [hist EXCEPT !.fetchedAt[p] = hist.purges]
  /\ UNCHANGED <<engineVars, env, minute, kv, cache, req, kvKey, cur, seen, rank, budget,
                 arrivals, passed, prev, lapsed>>

\* await caches.default.put(cacheKey, resp.clone()), and the return.
CachePut(p) ==
  /\ pc[p] = "cache_put"
  /\ cache' = (CacheKey(req[p]) :> BuiltResponse(req[p], originRes[p])) @@ cache
  /\ Return(p, FinalResponse(req[p], originRes[p]))
  /\ eff' = [eff EXCEPT ![p] = @ \cup {"cache_put"}]
  /\ hist' = StoredBy(p, CacheKey(req[p]))
  /\ UNCHANGED <<engineVars, originReq, env, minute, kv, req, kvKey, cur, seen, originRes, nfetch, rank,
                 budget, arrivals, passed, prev, lapsed>>

\* What the next request can be compared with: a purge that succeeded, or a
\* GET answered from upstream.
Remembered(r, response) ==
  \/ response.body = Text("Purged")
  \/ /\ r.method = "GET"
     /\ Has(response.headers, "x-proxy-cache-status")
     /\ response.headers["x-proxy-cache-status"] = "MISS"

\* The invocation is over.
Finish(p) ==
  /\ pc[p] = "done"
  /\ prev' = IF Remembered(req[p], reply[p]) /\ ~lapsed
               THEN [req |-> req[p], reply |-> reply[p]]
               ELSE NoPrev
  /\ pc' = [pc EXCEPT ![p] = "idle"]
  /\ req' = [req EXCEPT ![p] = NoReq]
  /\ kvKey' = [kvKey EXCEPT ![p] = NoKvKey]
  /\ cur' = [cur EXCEPT ![p] = 0]
  /\ seen' = [seen EXCEPT ![p] = <<>>]
  /\ originRes' = [originRes EXCEPT ![p] = NoReply]
  /\ reply' = [reply EXCEPT ![p] = NoReply]
  /\ eff' = [eff EXCEPT ![p] = {}]
  /\ nfetch' = [nfetch EXCEPT ![p] = 0]
  /\ rank' = [rank EXCEPT ![p] = 0]
  /\ originReq' = [originReq EXCEPT ![p] = NoOriginReq]
  /\ hist' = [hist EXCEPT !.mine[p] = 0, !.fetchedAt[p] = 0,
                           !.staleHit = @ \ {p}]
  /\ UNCHANGED <<engineVars, env, minute, kv, cache, budget, arrivals, passed, lapsed>>

\* The clock reaches the next minute.
Tick ==
  /\ minute < MaxMinute
  /\ minute' = minute + 1
  /\ UNCHANGED <<hist, engineVars, originReq, env, kv, cache, pc, req, kvKey, cur, seen, originRes, reply, eff,
                 nfetch, rank, budget, arrivals, passed, prev, lapsed>>

\* The cache store drops an entry (its TTL ran out, or it was evicted).
Expire ==
  /\ \E k \in DOMAIN cache :
       /\ cache' = [j \in DOMAIN cache \ {k} |-> cache[j]]
       /\ hist' = [hist EXCEPT !.storedAt = Without(@, k)]
  /\ prev' = NoPrev
  /\ lapsed' = TRUE
  /\ UNCHANGED <<engineVars, originReq, env, minute, kv, pc, req, kvKey, cur, seen, originRes, reply, eff,
                 nfetch, rank, budget, arrivals, passed>>

\* What the handler does after the request has arrived.
Continue(p) ==
  \/ RateGet(p)
  \/ RatePut(p)
  \/ PurgeDelete(p)
  \/ CacheMatch(p)
  \/ Fetch(p)
  \/ CachePut(p)
  \/ Finish(p)

Step(p) ==
  \/ Start(p)
  \/ RateGet(p)
  \/ RatePut(p)
  \/ PurgeDelete(p)
  \/ CacheMatch(p)
  \/ Fetch(p)
  \/ CachePut(p)
  \/ Finish(p)

\* No engine is running.
EngineIdle == input = NoInput /\ output = NoOutput /\ runs = 0

Out(doc) == [kind |-> "out", doc |-> doc]

Ran(result) ==
  /\ output = NoOutput
  /\ output' = result
  /\ runs' = runs + 1
  /\ UNCHANGED <<input, pipelineVars>>

\* The CSS branch's engine call: rewriteCSS(text, target.toString(), proxyOrigin).
RunCSS ==
  /\ input.kind = "css"
  /\ Ran(Out(rewriteCSS(input.doc, input.base, ProxyOrigin)))

\* The JS branch's engine call.
RunJS ==
  /\ input.kind = "js"
  /\ Ran(Out(rewriteJS(input.doc, input.base, ProxyOrigin,
                       safeParseInt(EnvMaxRewriteBytes, DEFAULT_MAX_REWRITE_BYTES))))

\* The JSON branch's engine call.
RunJSON ==
  /\ input.kind = "json"
  /\ Ran(Out(rewriteJSON(input.doc, input.base, ProxyOrigin)))

\* The HTML branch: the registered handlers on one element.
RunHTML ==
  /\ input.kind = "html"
  /\ Ran(Out(rewriteElement(input.doc, input.base, ProxyOrigin)))

\* The CSS and JS branches of the dispatcher on a standalone response.
RunBody ==
  /\ input.kind = "body"
  /\ Ran(Out(StandaloneBody(input.ctype, input.headers, input.doc, input.base,
                            safeParseInt(EnvMaxRewriteBytes, DEFAULT_MAX_REWRITE_BYTES))))

\* A reference is proxified as the handlers do it, the client follows the
\* proxified URL, and the fetch handler takes the target from the request:
\* by the url parameter (src/src/worker.js), by the path remainder
\* (src/unnamed/part_001).
Follow ==
  /\ input.kind = "link"
  /\ LET abs == resolveUrl(input.doc, input.base)
         proxied == proxify(ProxyOrigin, abs)
         proxied001 == proxify_part001(ProxyOrigin, abs)
     IN Ran([kind |-> "out", abs |-> abs, doc |-> proxied,
             target |-> TargetOf(RequestFor(proxied)),
             target001 |-> target_part001(proxied001)])

\* The engine is given its own output.
Rerun ==
  /\ input.kind \in {"css", "js", "json", "html"}
  /\ output # NoOutput
  /\ runs < MaxRuns
  /\ input' = [input EXCEPT !.doc = output.doc]
  /\ output' = NoOutput
  /\ UNCHANGED <<runs, pipelineVars>>

Init == Idle(MaxRequests) /\ EngineIdle
ConcInit == Idle(MaxConcRequests) /\ EngineIdle

\* Requests handled one after another.
Next == (\E p \in SeqProcs : Step(p)) \/ Tick \/ Expire
Spec == Init /\ [][Next]_vars

\* Requests handled concurrently.
ConcNext == (\E p \in Procs : Step(p)) \/ Tick \/ Expire
ConcSpec == ConcInit /\ [][ConcNext]_vars

\* Cache-eligible GETs for one target and purges of it, handled
\* concurrently.
RaceRequests ==
  { Req("/", "GET", API_KEY, NoKey, "", CssTarget, EmptyStr, <<>>),
    Req("/__purge", "POST", API_KEY, NoKey, "", EmptyStr, EmptyStr,
        <<Field("url", encodeURIComponent(CssTarget))>>) }
RaceInit == Idle(MaxRaceRequests) /\ EngineIdle
RaceNext ==
  (\E p \in Procs : StartFrom(p, RaceRequests) \/ Continue(p)) \/ Tick \/ Expire
RaceSpec == RaceInit /\ [][RaceNext]_vars

\* The engines on the texts of EngineInputs.
EngineInit ==
  /\ Idle(0)
  /\ env = Env(<<"">>, FALSE)
  /\ input \in EngineInputs
  /\ output = NoOutput
  /\ runs = 0
EngineNext ==
  RunCSS \/ RunJS \/ RunJSON \/ RunHTML \/ RunBody \/ Follow \/ Rerun
EngineSpec == EngineInit /\ [][EngineNext]_vars

\* ------------------------------------------------------------------ claims

CacheOps == {"cache_match", "cache_put", "cache_delete"}
Marked(response, mark) ==
  /\ Has(response.headers, "x-proxy-cache-status")
  /\ response.headers["x-proxy-cache-status"] = mark
Absolute(raw) == raw.scheme # "" /\ raw.host # ""
ListedHosts == IF env.ALLOWED_HOSTS = <<"">> THEN {} ELSE {"ex.com"}
EligibleGet(r) == r.method = "GET" /\ ~includes(r.accept, "text/html")
KvValue(m) ==
  IF [apiKey |-> API_KEY, minute |-> m] \in DOMAIN kv
    THEN kv[[apiKey |-> API_KEY, minute |-> m]] ELSE 0

\* The request of p got past authentication, the rate check and the purge
\* route, so the target resolver is what handles it.
ReachedResolver(p) ==
  /\ pc[p] # "idle"
  /\ req[p].path # "/__health"
  /\ apiKeyOf(req[p]) = API_KEY
  /\ ~(req[p].path = "/__purge" /\ req[p].method = "POST")
  /\ env.RATE_KV => "kv_put" \in eff[p]

\* Request r looked the cache up and upstream answered res, a response of
\* one of the kinds the handler stores.
StoredMiss(r, res, looked) ==
  /\ EligibleGet(r)
  /\ looked
  /\ res # NetworkError /\ res # NoReply
  /\ ~(res.status \in 300..399)
  /\ ContentKind(r, res) \in {"css", "js", "js_too_large", "json", "raw"}

\* C1: a request other than /__health whose API key is absent or is not the
\* configured key is answered 401 Unauthorized, and that request has issued
\* no counter-store operation, no cache operation and no upstream fetch.
C1_UnauthorizedBeforeAnyEffect ==
  \A p \in Procs :
    (pc[p] # "idle" /\ req[p].path # "/__health" /\ apiKeyOf(req[p]) # API_KEY)
      => /\ pc[p] = "done"
         /\ reply[p].status = 401
         /\ reply[p].body = Text("Unauthorized")
         /\ eff[p] = {}
         /\ nfetch[p] = 0

C1_Witness ==
  \E p \in Procs :
    /\ pc[p] = "done"
    /\ req[p].hdrKey = "wrong" /\ req[p].qKey = API_KEY
    /\ reply[p].status = 401

\* C2: with a counter store and ceiling N, requests handled one after
\* another: the k-th rate check of a minute bucket passes when k <= N, and
\* is answered 429 with no upstream fetch when k > N; the count starts again
\* in the next bucket.
C2_FixedWindow ==
  \A p \in Procs :
    "kv_get" \in eff[p] =>
      IF rank[p] <= RateCeiling
        THEN pc[p] = "rl_put" \/ "kv_put" \in eff[p]
        ELSE /\ pc[p] = "done"
             /\ reply[p].status = 429
             /\ "kv_put" \notin eff[p]
             /\ "fetch" \notin eff[p] /\ nfetch[p] = 0

C2_Witness ==
  \E p \in Procs :
    /\ kvKey[p].minute = 1 /\ rank[p] = 1 /\ "kv_put" \in eff[p]
    /\ arrivals[0] = RateCeiling + 1
    /\ passed[0] = RateCeiling

\* C3: under every interleaving, no more than N requests of a minute bucket
\* pass checkRateLimit, and the stored counter equals the number that
\* passed whenever no increment is in flight.
C3_AtomicIncrement ==
  \A m \in 0..MaxMinute :
    /\ passed[m] <= RateCeiling
    /\ (\A p \in Procs : ~(pc[p] = "rl_put" /\ kvKey[p].minute = m))
         => KvValue(m) = passed[m]

\* C4: an upstream fetch is issued only for a target parameter that is an
\* absolute URL whose lower-cased host is on the allow-list (or the list is
\* empty); a request that reaches the target resolver with a missing or
\* unparsable target is answered 400, one with a host off the list 403,
\* both without an upstream fetch and without a cache operation.
C4_TargetValidated ==
  \A p \in Procs :
    LET t == targetParam(req[p])
        listed == ListedHosts = {} \/ toLowerCase(t.host) \in ListedHosts
    IN /\ "fetch" \in eff[p] => Absolute(t) /\ listed
       /\ (ReachedResolver(p) /\ ~Absolute(t))
            => /\ pc[p] = "done" /\ reply[p].status = 400
               /\ "fetch" \notin eff[p] /\ eff[p] \cap CacheOps = {}
       /\ (ReachedResolver(p) /\ Absolute(t) /\ ~listed)
            => /\ pc[p] = "done" /\ reply[p].status = 403
               /\ "fetch" \notin eff[p] /\ eff[p] \cap CacheOps = {}

C4_Witness ==
  \E p \in Procs :
    /\ pc[p] = "done" /\ reply[p].status = 403
    /\ req[p].url = OtherTarget
    /\ "kv_put" \in eff[p]

\* C5: the cache is looked up, and a response is stored into it, only while
\* handling a GET whose Accept does not contain text/html.
C5_CacheOnlyForEligible ==
  \A p \in Procs :
    eff[p] \cap {"cache_match", "cache_put"} # {} => EligibleGet(req[p])

\* C6: when the lookup of a cache-eligible GET finds an entry, the response
\* has the entry's status, headers and body, is marked HIT, and the request
\* issues no upstream fetch and neither stores into the cache nor deletes
\* from it.
C6_HitServesStored ==
  \A p \in Procs :
    Len(seen[p]) = 1 =>
      LET e == seen[p][1]
      IN /\ pc[p] = "done"
         /\ reply[p].status = e.status
         /\ reply[p].body = e.body
         /\ \A h \in DOMAIN e.headers \ {"x-proxy-took-ms", "x-proxy-cache-status"} :
              Has(reply[p].headers, h) /\ reply[p].headers[h] = e.headers[h]
         /\ Marked(reply[p], "HIT")
         /\ "fetch" \notin eff[p] /\ nfetch[p] = 0
         /\ eff[p] \cap {"cache_put", "cache_delete"} = {}

C6_Witness ==
  \E p \in Procs :
    /\ Len(seen[p]) = 1 /\ pc[p] = "done"
    /\ EligibleGet(req[p])
    /\ reply[p].status = 404 /\ reply[p].body.engine = "css"

C8_PurgeEvicts ==
  \A p \in Procs :
    ( /\ pc[p] = "done"
      /\ prev.reply.body = Text("Purged")
      /\ EligibleGet(req[p])
      /\ req[p].url = decodeURIComponent(PurgeMatch(prev.req.body)[1])
      /\ "cache_match" \in eff[p] )
      => ~Marked(reply[p], "HIT") /\ "fetch" \in eff[p]

\* C9: for an upstream status in [300,400) the handler returns a response:
\* with a resolvable Location, a redirect of the same status to the
\* proxy-addressed form of the resolved Location, the body neither rewritten
\* nor cached; with no Location or an unresolvable one, the upstream
\* response with its status, body and Location as they came.
C9_RedirectIntercepted ==
  \A p \in Procs :
    ( /\ pc[p] = "done" /\ "fetch" \in eff[p]
      /\ originRes[p] # NetworkError
      /\ originRes[p].status \in 300..399 )
      => LET res == originRes[p]
             base == ParseUrl(targetParam(req[p])).href
             loc == IF Has(res.headers, "location")
                      THEN res.headers["location"] ELSE EmptyStr
         IN /\ reply[p].status = res.status
            /\ IF loc # EmptyStr /\ ParseUrlWithBase(loc, base).ok
                 THEN /\ Has(reply[p].headers, "location")
                      /\ reply[p].headers["location"].origin = ProxyOrigin
                      /\ reply[p].headers["location"].url =
                           encodeURIComponent(ParseUrlWithBase(loc, base).href)
                      /\ reply[p].body.engine = "none"
                      /\ "cache_put" \notin eff[p]
                 ELSE /\ reply[p].body = res.body
                      /\ Has(reply[p].headers, "location") = Has(res.headers, "location")
                      /\ Has(res.headers, "location")
                           => reply[p].headers["location"] = res.headers["location"]

\* The request of p was answered from an upstream response or a cache entry.
ContentPath(p) ==
  /\ pc[p] = "done" /\ reply[p].status # 0
  /\ \/ Len(seen[p]) = 1
     \/ "fetch" \in eff[p] /\ originRes[p] # NetworkError
          /\ ~Intercepted(originRes[p])

\* C17: a response on a content path (HTML, CSS, JS, JSON, passthrough,
\* cache hit) has none of the headers Set-Cookie, Content-Encoding,
\* Content-Length, Transfer-Encoding, Connection, Alt-Svc, and has
\* X-Content-Type-Options: nosniff.
C17_ResponseHeadersSanitized ==
  \A p \in Procs :
    ContentPath(p) =>
      /\ DOMAIN reply[p].headers
           \cap {"set-cookie", "content-encoding", "content-length",
                 "transfer-encoding", "connection", "alt-svc"} = {}
      /\ Has(reply[p].headers, "x-content-type-options")
      /\ reply[p].headers["x-content-type-options"] = "nosniff"

\* C18: the request handed to fetch has none of the inbound hop-by-hop
\* headers, Host, X-Forwarded-*, Content-Length, Accept-Encoding, Cookie,
\* Authorization; it has the inbound method, a body exactly when the method
\* is neither GET nor HEAD, and manual redirect handling.
C18_OutboundRequestStripped ==
  \A p \in Procs :
    "fetch" \in eff[p] =>
      /\ DOMAIN originReq[p].headers
           \cap {"connection", "keep-alive", "proxy-authenticate",
                 "proxy-authorization", "te", "trailers", "transfer-encoding",
                 "upgrade", "host", "x-forwarded-for", "x-forwarded-host",
                 "x-forwarded-proto", "content-length", "accept-encoding",
                 "cookie", "authorization"} = {}
      /\ originReq[p].method = req[p].method
      /\ (originReq[p].body = <<>>) <=> (req[p].method \in {"GET", "HEAD"})
      /\ originReq[p].redirect = "manual"

\* C10: a request issues at most one upstream fetch; when the fetch fails
\* the request is answered 502 and has neither stored into the cache nor
\* deleted from it.
C10_SingleAttempt ==
  \A p \in Procs :
    /\ nfetch[p] <= 1
    /\ (pc[p] = "done" /\ originRes[p] = NetworkError)
         => /\ reply[p].status = 502
            /\ eff[p] \cap {"cache_put", "cache_delete"} = {}

C10_Witness ==
  \E p \in Procs :
    /\ pc[p] = "done" /\ originRes[p] = NetworkError
    /\ reply[p].status = 502 /\ nfetch[p] = 1
    /\ "cache_match" \in eff[p]

\* An engine has run on the input: the output is what it made of input.doc.
EngineRan(kinds) == input.kind \in kinds /\ output # NoOutput

\* The URL attribute of an element, by the element's tag.
UrlAttr(el) ==
  CASE el.tag \in {"a", "area", "link", "base"} -> "href"
    [] el.tag = "form" -> "action"
    [] el.tag = "video" -> "poster"
    [] OTHER -> "src"

\* The reference a document carries first, EmptyStr when it carries none:
\* the first item of a CSS or JS text, the string (or the member "next") of a
\* JSON text, the URL attribute (or the style's first url()) of an element.
RefOf(kind, doc) ==
  CASE kind = "css" -> IF doc = <<>> THEN EmptyStr ELSE doc[1].u
    [] kind = "js" ->
         IF doc = <<>> THEN EmptyStr
         ELSE IF doc[1].t = "importScripts" THEN doc[1].args[1].u
         ELSE doc[1].u
    [] kind = "json" ->
         IF ~doc.json THEN EmptyStr
         ELSE IF doc.v.t = "str" THEN doc.v.s
         ELSE IF doc.v.t = "obj" /\ "next" \in DOMAIN doc.v.m
                 /\ doc.v.m["next"].t = "str"
           THEN doc.v.m["next"].s
         ELSE EmptyStr
    [] kind = "html" ->
         IF hasAttribute(doc, "style") THEN doc.attrs["style"][1].u
         ELSE doc.attrs[UrlAttr(doc)]
    [] OTHER -> EmptyStr

RewriteKinds == {"css", "js", "json", "html"}

\* C11: a reference that already begins with the proxy origin is returned
\* unchanged by every rewrite path (HTML handlers, CSS, JS and JSON engines),
\* so an engine run on its own output changes no proxy-addressed reference.
C11_ProxiedUnchanged ==
  (EngineRan(RewriteKinds) /\ startsWith(RefOf(input.kind, input.doc), ProxyOrigin))
    => RefOf(input.kind, output.doc) = RefOf(input.kind, input.doc)

\* The schemes no engine may rewrite, in any letter case.
ExcludedScheme(r) ==
  /\ IsUrlShaped(r)
  /\ toLowerCase(r.scheme)
       \in {"data", "blob", "about", "mailto", "javascript", "tel"}

\* C12: a reference whose scheme is data:, blob:, about:, mailto:,
\* javascript: or tel:, in any letter case, is emitted unchanged by every
\* engine and handler (HTML handlers, CSS passes, JS patterns, JSON walk).
C12_ExcludedUnchanged ==
  (EngineRan(RewriteKinds) /\ ExcludedScheme(RefOf(input.kind, input.doc)))
    => RefOf(input.kind, output.doc) = RefOf(input.kind, input.doc)

\* new URL(r, b) succeeds for a non-empty reference r.
Resolvable(r, b) == r # EmptyStr /\ ParseUrlWithBase(r, b).ok

\* C13: for a reference resolvable against the base, the target the fetch
\* handler extracts from the proxified URL (the url parameter in
\* src/src/worker.js, the path remainder in src/unnamed/part_001) is exactly
\* the resolved absolute URL, query string and fragment included.
C13_RoundTrip ==
  (EngineRan({"link"}) /\ Resolvable(input.doc, input.base))
    => /\ output.abs = ParseUrlWithBase(input.doc, input.base).href
       /\ output.target = output.abs
       /\ output.target001 = output.abs

\* The half of C13 about src/src/worker.js alone.
C13_MainRoundTrip ==
  (EngineRan({"link"}) /\ Resolvable(input.doc, input.base))
    => output.target = ParseUrlWithBase(input.doc, input.base).href

\* C14: a reference that cannot be resolved against the base is returned
\* unchanged, not wrapped into a proxy-addressed URL, on every rewrite path
\* that calls resolveUrl and then proxify.
C14_FailOpenResolution ==
  (/\ EngineRan(RewriteKinds)
   /\ RefOf(input.kind, input.doc) # EmptyStr
   /\ ~ParseUrlWithBase(RefOf(input.kind, input.doc), input.base).ok)
    => RefOf(input.kind, output.doc) = RefOf(input.kind, input.doc)

\* The configured max-rewrite-byte ceiling.
Ceiling == safeParseInt(EnvMaxRewriteBytes, DEFAULT_MAX_REWRITE_BYTES)

\* C15: a standalone JS or CSS body longer than the configured ceiling is
\* returned identical to the upstream body, with or without a
\* Content-Length header on the upstream response.
C15_OversizedPassesThrough ==
  (EngineRan({"body"}) /\ Length(input.doc) > Ceiling)
    => output.doc = input.doc

\* The half of C15 about JS bodies.
C15_OversizedJsPassesThrough ==
  (EngineRan({"body"}) /\ input.ctype = "js" /\ Length(input.doc) > Ceiling)
    => output.doc = input.doc

\* The JS engine ran on a text within the ceiling that begins with the
\* literal "/api/x" in the context ctx, the target being https://ex.com/p/.
RanOnApiX(ctx) ==
  /\ EngineRan({"js"})
  /\ input.base = PageBase
  /\ input.doc # <<>>
  /\ Length(input.doc) <= Ceiling
  /\ input.doc[1] = Lit(ctx, "\"", RootRef)

\* C16: the JS engine replaces the literal of fetch("/api/x"), target
\* https://ex.com/p/, by the proxy URL embedding https://ex.com/api/x, and
\* leaves fetch(base + "/api/x") untouched by all nine patterns.
C16_FetchLiteralOnly ==
  /\ RanOnApiX("fetch")
       => output.doc[1]
            = Lit("fetch", "\"",
                  proxify(ProxyOrigin, U("https", "ex.com", <<"api", "x">>)))
  /\ RanOnApiX("concat") => output.doc[1] = input.doc[1]

\* The half of C16 about the literal passed directly to fetch.
C16_FetchLiteralRewritten ==
  RanOnApiX("fetch")
    => output.doc[1]
         = Lit("fetch", "\"",
               proxify(ProxyOrigin, U("https", "ex.com", <<"api", "x">>)))

C16_FetchLiteralWitness ==
  /\ RanOnApiX("fetch")
  /\ output.doc[1].u.url = encodeURIComponent(U("https", "ex.com", <<"api", "x">>))

RECURSIVE Expected(_, _)
\* What the JSON engine is to make of the value v: the same shape and keys,
\* each string leaf that starts with http://, https:// or / and has no
\* excluded scheme replaced by its proxified absolute form, every other leaf
\* as it is.
Expected(v, base) ==
  CASE v.t = "obj" -> JObj([k \in DOMAIN v.m |-> Expected(v.m[k], base)])
    [] v.t = "arr" -> JArr([i \in DOMAIN v.a |-> Expected(v.a[i], base)])
    [] v.t = "str" ->
         IF StartsUrlLike(v.s) /\ ~ExcludedScheme(v.s)
           THEN JStr(proxify(ProxyOrigin, ParseUrlWithBase(v.s, base).href))
           ELSE v
    [] OTHER -> v

\* C19: for a well-formed JSON body the output parses to the value of the
\* same shape with each URL-like string leaf proxified and every other leaf
\* and every key unchanged; a body that is not JSON is returned unchanged.
C19_JsonWalk ==
  (EngineRan({"json"}) /\ runs = 1) =>
    IF input.doc.json
      THEN /\ output.doc.json
           /\ JSONparse(output.doc.v) = Expected(JSONparse(input.doc.v), input.base)
      ELSE output.doc = input.doc

\* The part of C19 about a text that does not parse.
C19_MalformedUnchanged ==
  (EngineRan({"json"}) /\ ~input.doc.json) => output.doc = input.doc

\* The HTML engine ran on a link[href] or script[src] element that has an
\* integrity attribute and a reference the engine is to proxify: one that
\* resolves, has no excluded scheme and is not proxy-addressed already.
RanOnIntegrity(tag) ==
  /\ EngineRan({"html"})
  /\ runs = 1
  /\ input.doc.tag = tag
  /\ hasAttribute(input.doc, "integrity")
  /\ Resolvable(input.doc.attrs[UrlAttr(input.doc)], input.base)
  /\ ~ExcludedScheme(input.doc.attrs[UrlAttr(input.doc)])
  /\ ~startsWith(input.doc.attrs[UrlAttr(input.doc)], ProxyOrigin)

\* The element's URL attribute was proxified and its integrity removed.
ProxifiedWithoutIntegrity ==
  /\ output.doc.attrs[UrlAttr(input.doc)]
       = proxify(ProxyOrigin,
                 ParseUrlWithBase(input.doc.attrs[UrlAttr(input.doc)],
                                  input.base).href)
  /\ ~hasAttribute(output.doc, "integrity")

\* C20: after the HTML engine handles a link[href] or script[src] element
\* that carries an integrity attribute, the URL attribute is proxified and
\* the element has no integrity attribute, for both element kinds.
C20_IntegrityRemoved ==
  \A tag \in {"link", "script"} :
    RanOnIntegrity(tag) => ProxifiedWithoutIntegrity

\* C20 for the elements whose tagName reads in capitals.
C20_IntegrityRemovedUpper ==
  \A tag \in {"link", "script"} :
    (RanOnIntegrity(tag) /\ input.doc.tagName \in {"LINK", "SCRIPT"})
      => ProxifiedWithoutIntegrity

\* C20 for link elements whose tagName reads in capitals.
C20_LinkIntegrityRemoved ==
  (RanOnIntegrity("link") /\ input.doc.tagName = "LINK")
    => ProxifiedWithoutIntegrity

\* The CSS engine ran on a text given to it for the first time, and its
\* first item is of one of the forms: the output's reference differs from
\* the input's, that is, the engine rewrote it.
CssRewrote(forms) ==
  /\ EngineRan({"css"})
  /\ runs = 1
  /\ input.doc # <<>>
  /\ input.doc[1].t \in forms
  /\ output.doc[1].u # input.doc[1].u

\* The rewritten reference is the proxy URL of the resolved input reference.
EmbedsResolvedTarget ==
  output.doc[1].u
    = proxify(ProxyOrigin, resolveUrl(input.doc[1].u, input.base))

\* C21: the two passes of the CSS engine rewrite each reference exactly
\* once: a rewritten url(...) or @import reference embeds the resolved
\* target itself, and what the url pass produced is not proxified again by
\* the @import pass, in particular for @import url("a.css").
C21_CssRewrittenOnce ==
  CssRewrote({"url", "import", "importurl"}) => EmbedsResolvedTarget

\* C21 for url(...) outside @import and for @import without url().
C21_SingleFormsRewrittenOnce ==
  CssRewrote({"url", "import"}) => EmbedsResolvedTarget

\* C22: under every interleaving of a purge for a target with concurrent
\* cache-eligible GETs for it, once the purge has returned "Purged" no
\* response fetched from upstream before the purge began is served as a
\* cache HIT: an in-flight miss that stores its response after the purge's
\* delete does not re-create the purged entry.
C22_NoStaleHitAfterPurge ==
  \A p \in Procs :
    (pc[p] = "done" /\ Marked(reply[p], "HIT")) => p \notin hist.staleHit

\* The entry a returned purge deleted is not in the cache again with a
\* response fetched before that purge began.
C22_PurgedEntryNotRecreated ==
  \A k \in DOMAIN hist.returned \cap DOMAIN hist.storedAt :
    k \in DOMAIN cache => hist.storedAt[k] >= hist.returned[k]

\* The outbound request of p carries the key: in a header's value, or as a
\* component of its URL.
KeySentUpstream(p) ==
  \/ \E n \in DOMAIN originReq[p].headers : originReq[p].headers[n] = API_KEY
  \/ API_KEY \in {originReq[p].url.scheme, originReq[p].url.host,
                  originReq[p].url.query, originReq[p].url.frag}
  \/ \E i \in DOMAIN originReq[p].url.path : originReq[p].url.path[i] = API_KEY

\* C23: the pre-shared API key is never sent to the upstream target: the
\* outbound request of an authenticated request, the key presented in the
\* x-api-key header or in the api_key query parameter, has no header and no
\* URL component whose value is the key.
C23_KeyNotSentUpstream ==
  \A p \in Procs :
    ("fetch" \in eff[p] /\ Authorized(apiKeyOf(req[p]))) => ~KeySentUpstream(p)

\* C23 for a key presented in the api_key query parameter only.
C23_QueryKeyNotSentUpstream ==
  \A p \in Procs :
    ("fetch" \in eff[p] /\ req[p].hdrKey = NoKey /\ req[p].qKey = API_KEY)
      => ~KeySentUpstream(p)

C23_QueryKeyWitness ==
  \E p \in Procs :
    /\ "fetch" \in eff[p] /\ req[p].hdrKey = NoKey /\ req[p].qKey = API_KEY
    /\ originReq[p].url = CssTarget
    /\ "x-forwarded-by" \in DOMAIN originReq[p].headers

====
